---- MODULE Spec2Model ----
(***************************************************************************)
(* react-advance-concepts: the SSG build script (build.js, quoted in       *)
(* SSG/explanation.md), the SSR request pipeline (SSR/explanation.md), the *)
(* App components (SSR/App.js and the App without the useState import),    *)
(* and the client hydration entry point.                                   *)
(*                                                                         *)
(* A string is a sequence of tokens.  The marker "<!--ROOT-->" is one      *)
(* token and the only token holding the character "!", so an occurrence of *)
(* the marker in a string is exactly an occurrence of the marker token.    *)
(* The characters String.prototype.replace treats specially in a           *)
(* replacement (dollar, ampersand, grave accent, apostrophe) are tokens of  *)
(* their own.                                                              *)
(***************************************************************************)
EXTENDS Naturals, Sequences, FiniteSets, TLC

\* ------------------------------------------------------------------ bounds

\* Longest text (in tokens) of the parametric component Para.
MaxText == 2
\* Most marker occurrences in a shell file.
MaxMarkers == 2
\* Builds run in succession in one behaviour.
MaxBuilds == 2
\* SSR requests in flight in one behaviour.
MaxReqs == 2
\* Clicks on the hydrated button.
MaxClicks == 2

\* ----------------------------------------------------------------- strings

Marker == "<!--ROOT-->"

\* The token of the grave accent (U+0060).
Grave == "U+0060"

\* The token of the apostrophe (U+0027).
Apos == "U+0027"

\* The characters a text is made of.
TextChars == {"x", "$", "&", Grave, Apos}

RECURSIVE SeqsUpTo(_, _)
SeqsUpTo(S, n) ==
  IF n = 0 THEN {<<>>}
  ELSE LET shorter == SeqsUpTo(S, n - 1)
       IN  shorter \cup {Append(s, c) : s \in {t \in shorter : Len(t) = n - 1}, c \in S}

Texts == SeqsUpTo(TextChars, MaxText)

RECURSIVE Concat(_)
Concat(ss) == IF ss = <<>> THEN <<>> ELSE Head(ss) \o Concat(Tail(ss))

Occurrences(s) == {i \in 1..Len(s) : s[i] = Marker}

MarkerCount(s) == Cardinality(Occurrences(s))

\* String.prototype.indexOf: the first occurrence, 0 when there is none.
IndexOfMarker(s) ==
  IF Occurrences(s) = {} THEN 0
  ELSE CHOOSE i \in Occurrences(s) : \A j \in Occurrences(s) : i <= j

BeforeMarker(s) == SubSeq(s, 1, IndexOfMarker(s) - 1)

AfterMarker(s) == SubSeq(s, IndexOfMarker(s) + 1, Len(s))

\* GetSubstitution of ECMAScript, for a string pattern (no capture groups):
\* in the replacement "$$" stands for "$", "$&" for the matched text, "$" and
\* a grave accent for the text before the match, "$" and an apostrophe for the
\* text after it; any other "$" is literal.
RECURSIVE GetSubstitution(_, _, _, _, _)
GetSubstitution(matched, before, after, repl, i) ==
  IF i > Len(repl) THEN <<>>
  ELSE IF repl[i] = "$" /\ i < Len(repl) /\ repl[i + 1] \in {"$", "&", Grave, Apos}
       THEN (CASE repl[i + 1] = "$" -> <<"$">>
               [] repl[i + 1] = "&" -> matched
               [] repl[i + 1] = Grave -> before
               [] repl[i + 1] = Apos -> after)
            \o GetSubstitution(matched, before, after, repl, i + 2)
       ELSE <<repl[i]>> \o GetSubstitution(matched, before, after, repl, i + 1)

\* shell.replace("<!--ROOT-->", app): the first occurrence only, the string
\* itself when there is none.
Replace(s, repl) ==
  IF IndexOfMarker(s) = 0 THEN s
  ELSE BeforeMarker(s)
       \o GetSubstitution(<<Marker>>, BeforeMarker(s), AfterMarker(s), repl, 1)
       \o AfterMarker(s)

\* shell.split("<!--ROOT-->"): the pieces between the occurrences.
RECURSIVE Split(_)
Split(s) ==
  IF IndexOfMarker(s) = 0 THEN <<s>>
  ELSE <<BeforeMarker(s)>> \o Split(AfterMarker(s))

\* The SSR assembly: the rendered content between the first two parts; a
\* missing second part is JavaScript's undefined, which concatenates as text.
SplitInject(s, app) ==
  LET parts == Split(s)
  IN  parts[1] \o app \o (IF Len(parts) >= 2 THEN parts[2] ELSE <<"undefined">>)

\* ------------------------------------------------------- component trees

\* h(type, props, ...children): an element, or a text child.
Text(t) == [tag |-> "#text", text |-> t, kids |-> <<>>]

H(type, children) == [tag |-> type, text |-> <<>>, kids |-> children]

\* The template literal of the button's label: the number in decimal.
CountText(count) == <<"Count: " \o ToString(count)>>

\* The components: the three App functions of the repository, and Para, a
\* component with one paragraph of a given text.
Components ==
  {[def |-> d, text |-> <<>>] : d \in {"SSG_App", "SSR_App", "Unnamed_App"}}
  \cup {[def |-> "Para", text |-> t] : t \in Texts}

\* The names each App module imports from "react".
Imports(def) ==
  IF def = "SSR_App" THEN {"createElement", "useState"} ELSE {"createElement"}

\* The names each App body references.
References(def) ==
  IF def \in {"SSR_App", "Unnamed_App"} THEN {"createElement", "useState"}
  ELSE {"createElement"}

\* A state held outside the render (a module-level counter).
UseStateShared(initial, renders) == initial + renders

\* useState(initial) during a render: the declared initial state.
UseState(initial, renders) == initial

\* An App whose output depends on where it runs.
AppBodyByEnv(c, count, env) ==
  CASE c.def = "SSG_App" ->
         H("div", <<H("h1", <<Text(<<"Hello Frontend Masters">>)>>),
                    H("p", <<Text(<<"This is SSG">>)>>)>>)
    [] c.def = "SSR_App" ->
         H("div", <<H("h1", <<Text(<<IF env = "server" THEN "SSR example"
                                     ELSE "CSR example">>)>>),
                    H("button", <<Text(CountText(count))>>)>>)
    [] c.def = "Unnamed_App" ->
         H("div", <<H("h1", <<Text(<<"Count: ">>), Text(<<ToString(count)>>)>>),
                    H("button", <<Text(CountText(count))>>)>>)
    [] c.def = "Para" -> H("p", <<Text(c.text)>>)

\* The element tree App() returns, given the value of its count state.
AppBody(c, count, env) ==
  CASE c.def = "SSG_App" ->
         H("div", <<H("h1", <<Text(<<"Hello Frontend Masters">>)>>),
                    H("p", <<Text(<<"This is SSG">>)>>)>>)
    [] c.def = "SSR_App" ->
         H("div", <<H("h1", <<Text(<<"SSR example">>)>>),
                    H("button", <<Text(CountText(count))>>)>>)
    [] c.def = "Unnamed_App" ->
         H("div", <<H("h1", <<Text(<<"Count: ">>), Text(<<ToString(count)>>)>>),
                    H("button", <<Text(CountText(count))>>)>>)
    [] c.def = "Para" -> H("p", <<Text(c.text)>>)

\* Calling App: a name the body references and the module does not import
\* is a ReferenceError.
Evaluate(c, count, env) ==
  IF References(c.def) \subseteq Imports(c.def)
  THEN [ok |-> TRUE, node |-> AppBody(c, count, env), err |-> "none"]
  ELSE [ok |-> FALSE, node |-> Text(<<>>), err |-> "ReferenceError"]

\* The renderer's escaping of text.
EscapeChar(c) ==
  CASE c = "&" -> <<"&", "amp;">>
    [] c = Apos -> <<"&", "#x27;">>
    [] OTHER -> <<c>>

Escape(t) == Concat([i \in 1..Len(t) |-> EscapeChar(t[i])])

\* The markup of an element tree.  In interactive mode (renderToString)
\* adjacent text children are kept apart by an empty comment; in static mode
\* (renderToStaticMarkup) they are not.
RECURSIVE Markup(_, _)
Markup(node, mode) ==
  IF node.tag = "#text" THEN Escape(node.text)
  ELSE LET n == Len(node.kids)
           sep(i) == IF /\ mode = "interactive" /\ i > 1
                        /\ node.kids[i].tag = "#text"
                        /\ node.kids[i - 1].tag = "#text"
                     THEN <<"<!-- -->">> ELSE <<>>
       IN  <<"<" \o node.tag \o ">">>
           \o Concat([i \in 1..n |-> sep(i) \o Markup(node.kids[i], mode)])
           \o <<"</" \o node.tag \o ">">>

\* renderToStaticMarkup(h(App)) / renderToString(h(App)).
Render(c, mode, renders) ==
  LET e == Evaluate(c, UseState(0, renders), "server")
  IN  IF e.ok THEN [ok |-> TRUE, markup |-> Markup(e.node, mode), err |-> "none"]
      ELSE [ok |-> FALSE, markup |-> <<>>, err |-> e.err]

\* ------------------------------------------------------------ shell files

RECURSIVE Markers(_)
Markers(k) == IF k = 0 THEN <<>> ELSE <<Marker>> \o Markers(k - 1)

\* index.html: <div id="root"><!--ROOT--></div>, and its variants with no
\* marker or with several.
Shells == {<<"<div id=\"root\">">> \o Markers(k) \o <<"</div>">> : k \in 0..MaxMarkers}

ShellFiles ==
  {[exists |-> FALSE, content |-> <<>>]}
  \cup {[exists |-> TRUE, content |-> s] : s \in Shells}

\* ------------------------------------------------------------------ state

VARIABLES
  \* the SSG build (build.js)
  bpc,          \* the step the build is at
  component,    \* the App module the build imports
  shellFile,    \* index.html beside build.js
  shell,        \* const shell
  app,          \* const app
  html,         \* const html
  dist,         \* the dist/ directory
  distBefore,   \* dist/ as the running build found it
  buildNo,      \* the number of the running build
  trace,        \* the steps the running build has executed
  berr,         \* the exception that ended the running build
  prevErr,      \* the exception that ended the build before this one
  prevDist,     \* the contents of dist/ after the build before this one
  \* the shell substitution applied to its own output
  itemplate, imarkup, idoc, ifirst, icalls, ierr,
  \* the SSR server
  ssrComponent, \* the App module the server imports
  ssrShellFile, \* dist/index.html, the shell the server reads
  reqs,         \* the requests: where each is, and its locals
  serverUp,     \* whether the serving process is running
  renders,      \* the renders the process has started
  \* the browser
  cComponent,   \* the App module of the client bundle
  delivered,    \* the content of #root as the browser received it
  dom,          \* the content of #root
  cpc,          \* "Loaded", then "Hydrated"
  warnings,     \* hydration-mismatch signals raised
  count         \* the count state of the hydrated App

buildVars == <<bpc, component, shellFile, shell, app, html, dist, distBefore,
               buildNo, trace, berr, prevErr, prevDist>>

injVars == <<itemplate, imarkup, idoc, ifirst, icalls, ierr>>

ssrVars == <<ssrComponent, ssrShellFile, reqs, serverUp, renders>>

clientVars == <<cComponent, delivered, dom, cpc, warnings, count>>

vars == <<buildVars, injVars, ssrVars, clientVars>>

\* ------------------------------------------------------- output directory

Names == {"index.html", "old.html", "assets"}

Restrict(f, S) == [n \in S |-> f[n]]

NoEntries == Restrict([n \in Names |-> 0], {})

StaleEntry(kind) == [kind |-> kind, data |-> <<"stale">>, born |-> 0]

\* What dist/ may hold before the first build: nothing at all, a regular file
\* of that name, or a directory with any entries, each a file or a directory.
InitialDists ==
  {[state |-> "absent", entries |-> NoEntries], [state |-> "file", entries |-> NoEntries]}
  \cup {[state |-> "dir", entries |-> [n \in S |-> StaleEntry(k[n])]] :
          S \in SUBSET Names, k \in [Names -> {"file", "dir"}]}

Files(d) == {n \in DOMAIN d.entries : d.entries[n].kind = "file"}

Dirs(d) == {n \in DOMAIN d.entries : d.entries[n].kind = "dir"}

\* The names and bytes of the directory, whoever wrote them.
Contents(d) ==
  [state |-> d.state,
   entries |-> [n \in DOMAIN d.entries |->
                  [kind |-> d.entries[n].kind, data |-> d.entries[n].data]]]

\* A clean step that leaves the existing entries alone.
PrepareOutcomesNoClear(d) ==
  CASE d.state = "absent" ->
         {[ok |-> TRUE, dist |-> [state |-> "dir", entries |-> NoEntries], err |-> "none"]}
    [] d.state = "file" -> {[ok |-> FALSE, dist |-> d, err |-> "ENOTDIR"]}
    [] d.state = "dir" -> {[ok |-> TRUE, dist |-> d, err |-> "none"]}

\* A clean step that removes the directory with its entries.
PrepareOutcomesRemoveDir(d) ==
  CASE d.state = "absent" ->
         {[ok |-> TRUE, dist |-> [state |-> "dir", entries |-> NoEntries], err |-> "none"]}
    [] d.state = "file" -> {[ok |-> FALSE, dist |-> d, err |-> "ENOTDIR"]}
    [] d.state = "dir" ->
         {[ok |-> TRUE, dist |-> [state |-> "absent", entries |-> NoEntries], err |-> "none"]}

\* if (!existsSync) mkdirSync else for (file of readdirSync) unlinkSync(file).
\* readdirSync of a regular file throws; unlinkSync of a directory throws, after
\* the files that readdirSync listed before it have been removed (any subset
\* of the files, the order of the listing being the file system's).
PrepareOutcomes(d) ==
  CASE d.state = "absent" ->
         {[ok |-> TRUE, dist |-> [state |-> "dir", entries |-> NoEntries], err |-> "none"]}
    [] d.state = "file" -> {[ok |-> FALSE, dist |-> d, err |-> "ENOTDIR"]}
    [] d.state = "dir" ->
         IF Dirs(d) = {}
         THEN {[ok |-> TRUE, dist |-> [state |-> "dir", entries |-> NoEntries], err |-> "none"]}
         ELSE {[ok |-> FALSE,
                dist |-> [state |-> "dir",
                          entries |-> Restrict(d.entries, DOMAIN d.entries \ gone)],
                err |-> "EISDIR"] : gone \in SUBSET Files(d)}

\* writeFileSync(path.join(distPath, name), data).
WriteFile(d, name, data, born) ==
  IF d.state # "dir" THEN [ok |-> FALSE, dist |-> d, err |-> "ENOENT"]
  ELSE IF name \in Dirs(d) THEN [ok |-> FALSE, dist |-> d, err |-> "EISDIR"]
  ELSE [ok |-> TRUE,
        dist |-> [state |-> "dir",
                  entries |-> [n \in DOMAIN d.entries \cup {name} |->
                                 IF n = name
                                 THEN [kind |-> "file", data |-> data, born |-> born]
                                 ELSE d.entries[n]]],
        err |-> "none"]

\* ------------------------------------------------------------- the build

\* A script that clears the output directory before it renders.
NextStepPrepareFirst(step) ==
  CASE step = "Idle" -> "Preparing"
    [] step = "Preparing" -> "Loading"
    [] step = "Loading" -> "Rendering"
    [] step = "Rendering" -> "Injecting"
    [] step = "Injecting" -> "Writing"
    [] step = "Writing" -> "Done"

\* The statements of build.js in the order they are written.
NextStep(step) ==
  CASE step = "Idle" -> "Loading"
    [] step = "Loading" -> "Rendering"
    [] step = "Rendering" -> "Injecting"
    [] step = "Injecting" -> "Preparing"
    [] step = "Preparing" -> "Writing"
    [] step = "Writing" -> "Done"

\* A script that catches the exception of a step and goes on.
OnFailureContinue(step) == NextStep(step)

\* An exception no statement catches ends the script.
OnFailure(step) == "Failed"

Advance(step, ok, err) ==
  /\ bpc' = IF ok THEN NextStep(step) ELSE OnFailure(step)
  /\ trace' = Append(trace, step)
  /\ berr' = IF ok THEN berr ELSE err

\* node build.js
StartBuild ==
  /\ bpc = "Idle"
  /\ bpc' = NextStep("Idle")
  /\ distBefore' = dist
  /\ UNCHANGED <<component, shellFile, shell, app, html, dist, buildNo, trace,
                 berr, prevErr, prevDist, injVars, ssrVars, clientVars>>

\* const shell = readFileSync(path.join(__dirname, "index.html"), "utf8")
LoadShell ==
  /\ bpc = "Loading"
  /\ Advance("Loading", shellFile.exists, "ENOENT")
  /\ shell' = IF shellFile.exists THEN shellFile.content ELSE shell
  /\ UNCHANGED <<component, shellFile, app, html, dist, distBefore, buildNo,
                 prevErr, prevDist, injVars, ssrVars, clientVars>>

\* const app = renderToStaticMarkup(h(App))
RenderStep ==
  /\ bpc = "Rendering"
  /\ LET r == Render(component, "static", 0)
     IN  /\ Advance("Rendering", r.ok, r.err)
         /\ app' = IF r.ok THEN r.markup ELSE app
  /\ UNCHANGED <<component, shellFile, shell, html, dist, distBefore, buildNo,
                 prevErr, prevDist, injVars, ssrVars, clientVars>>

\* const html = shell.replace("<!--ROOT-->", app)
InjectStep ==
  /\ bpc = "Injecting"
  /\ Advance("Injecting", TRUE, "none")
  /\ html' = Replace(shell, app)
  /\ UNCHANGED <<component, shellFile, shell, app, dist, distBefore, buildNo,
                 prevErr, prevDist, injVars, ssrVars, clientVars>>

\* Create dist folder (or clean it if exists)
PrepareStep ==
  /\ bpc = "Preparing"
  /\ \E o \in PrepareOutcomes(dist) :
       /\ Advance("Preparing", o.ok, o.err)
       /\ dist' = o.dist
  /\ UNCHANGED <<component, shellFile, shell, app, html, distBefore, buildNo,
                 prevErr, prevDist, injVars, ssrVars, clientVars>>

\* writeFileSync(path.join(distPath, "index.html"), html)
WriteStep ==
  /\ bpc = "Writing"
  /\ LET w == WriteFile(dist, "index.html", html, buildNo)
     IN  /\ Advance("Writing", w.ok, w.err)
         /\ dist' = w.dist
  /\ UNCHANGED <<component, shellFile, shell, app, html, distBefore, buildNo,
                 prevErr, prevDist, injVars, ssrVars, clientVars>>

\* The script is run again, App.js and index.html unchanged.
Rerun ==
  /\ bpc \in {"Done", "Failed"}
  /\ buildNo < MaxBuilds
  /\ bpc' = "Idle"
  /\ buildNo' = buildNo + 1
  /\ prevErr' = berr
  /\ prevDist' = Contents(dist)
  /\ shell' = <<>>
  /\ app' = <<>>
  /\ html' = <<>>
  /\ trace' = <<>>
  /\ berr' = "none"
  /\ UNCHANGED <<component, shellFile, dist, distBefore, injVars, ssrVars, clientVars>>

BuildInit ==
  /\ bpc = "Idle"
  /\ component \in Components
  /\ shellFile \in ShellFiles
  /\ shell = <<>>
  /\ app = <<>>
  /\ html = <<>>
  /\ dist \in InitialDists
  /\ distBefore = dist
  /\ buildNo = 1
  /\ trace = <<>>
  /\ berr = "none"
  /\ prevErr = "none"
  /\ prevDist = Contents(dist)

BuildNext ==
  \/ StartBuild
  \/ LoadShell
  \/ RenderStep
  \/ InjectStep
  \/ PrepareStep
  \/ WriteStep
  \/ Rerun

\* ------------------------------------- the substitution on its own output

\* The markup of every component that renders.
Markups ==
  {Render(c, "static", 0).markup : c \in {k \in Components : Render(k, "static", 0).ok}}

\* shell.replace never throws: a string comes back whatever the marker count.
Inject(template, markup) == [doc |-> Replace(template, markup), err |-> "none"]

InjectFirst ==
  /\ icalls = 0
  /\ LET r == Inject(itemplate, imarkup)
     IN  /\ idoc' = r.doc
         /\ ifirst' = r.doc
         /\ ierr' = r.err
  /\ icalls' = 1
  /\ UNCHANGED <<itemplate, imarkup, buildVars, ssrVars, clientVars>>

InjectAgain ==
  /\ icalls = 1
  /\ LET r == Inject(idoc, imarkup)
     IN  /\ idoc' = r.doc
         /\ ierr' = r.err
  /\ icalls' = 2
  /\ UNCHANGED <<itemplate, imarkup, ifirst, buildVars, ssrVars, clientVars>>

InjectInit ==
  /\ itemplate \in Shells
  /\ imarkup \in Markups
  /\ idoc = <<>>
  /\ ifirst = <<>>
  /\ icalls = 0
  /\ ierr = "none"

InjectNext == InjectFirst \/ InjectAgain

\* ---------------------------------------------------------- SSR requests

ReqIds == 1..MaxReqs

NewReq == [pc |-> "Waiting", shell |-> <<>>, app |-> <<>>, html |-> <<>>,
           status |-> 0, body |-> <<>>, err |-> "none", caughtBy |-> "none"]

\* An exception thrown in the handler: no statement of the handler catches it,
\* so it leaves the handler.
Throw(r, err) == [reqs EXCEPT ![r].pc = "Escaped", ![r].err = err]

\* 1. Request Reception: the server receives GET /.
Receive(r) ==
  /\ serverUp
  /\ reqs[r].pc = "Waiting"
  /\ reqs' = [reqs EXCEPT ![r].pc = "Loading"]
  /\ UNCHANGED <<ssrComponent, ssrShellFile, serverUp, renders, buildVars, injVars, clientVars>>

\* 2. HTML Shell Loading: the server reads dist/index.html.
LoadShellForRequest(r) ==
  /\ serverUp
  /\ reqs[r].pc = "Loading"
  /\ reqs' = IF ssrShellFile.exists
             THEN [reqs EXCEPT ![r].pc = "Rendering", ![r].shell = ssrShellFile.content]
             ELSE Throw(r, "ENOENT")
  /\ UNCHANGED <<ssrComponent, ssrShellFile, serverUp, renders, buildVars, injVars, clientVars>>

\* 3. React Rendering: renderToString(h(App)).
RenderForRequest(r) ==
  /\ serverUp
  /\ reqs[r].pc = "Rendering"
  /\ LET out == Render(ssrComponent, "interactive", renders)
     IN  reqs' = IF out.ok
                 THEN [reqs EXCEPT ![r].pc = "Injecting", ![r].app = out.markup]
                 ELSE Throw(r, out.err)
  /\ renders' = renders + 1
  /\ UNCHANGED <<ssrComponent, ssrShellFile, serverUp, buildVars, injVars, clientVars>>

\* 4. HTML Assembly: the rendered content goes between the parts of the shell.
InjectForRequest(r) ==
  /\ serverUp
  /\ reqs[r].pc = "Injecting"
  /\ reqs' = [reqs EXCEPT ![r].pc = "Sending",
                          ![r].html = SplitInject(reqs[r].shell, reqs[r].app)]
  /\ UNCHANGED <<ssrComponent, ssrShellFile, serverUp, renders, buildVars, injVars, clientVars>>

\* 5. Response Delivery: the complete page is sent to the browser.
Respond(r) ==
  /\ serverUp
  /\ reqs[r].pc = "Sending"
  /\ reqs' = [reqs EXCEPT ![r].pc = "Responded", ![r].status = 200,
                          ![r].body = reqs[r].html]
  /\ UNCHANGED <<ssrComponent, ssrShellFile, serverUp, renders, buildVars, injVars, clientVars>>

\* An exception that left the handler is the transport's: its default error
\* reply answers the request with status 500 and the process goes on.
TransportReplies(r) ==
  /\ serverUp
  /\ reqs[r].pc = "Escaped"
  /\ reqs' = [reqs EXCEPT ![r].pc = "Responded", ![r].status = 500,
                          ![r].caughtBy = "transport"]
  /\ UNCHANGED <<ssrComponent, ssrShellFile, serverUp, renders, buildVars, injVars, clientVars>>

\* Or the exception is uncaught in the process, which ends with the requests
\* in flight unanswered.
ProcessCrashes(r) ==
  /\ serverUp
  /\ reqs[r].pc = "Escaped"
  /\ serverUp' = FALSE
  /\ UNCHANGED <<ssrComponent, ssrShellFile, reqs, renders, buildVars, injVars, clientVars>>

SSRInit ==
  /\ ssrComponent \in Components
  /\ ssrShellFile \in ShellFiles
  /\ reqs = [r \in ReqIds |-> NewReq]
  /\ serverUp = TRUE
  /\ renders = 0

SSRNext ==
  \E r \in ReqIds :
    \/ Receive(r)
    \/ LoadShellForRequest(r)
    \/ RenderForRequest(r)
    \/ InjectForRequest(r)
    \/ Respond(r)
    \/ TransportReplies(r)
    \/ ProcessCrashes(r)

\* -------------------------------------------------------------- the client

\* The DOM node of an element, made by the server's markup or by the client.
RECURSIVE DomOf(_, _)
DomOf(node, by) ==
  [tag |-> node.tag, text |-> node.text, by |-> by,
   kids |-> [i \in 1..Len(node.kids) |-> DomOf(node.kids[i], by)]]

\* The element a DOM node shows, whoever made the node.
RECURSIVE Shape(_)
Shape(n) ==
  [tag |-> n.tag, text |-> n.text,
   kids |-> [i \in 1..Len(n.kids) |-> Shape(n.kids[i])]]

Shapes(ns) == [i \in 1..Len(ns) |-> Shape(ns[i])]

InsertAt(seq, i, x) == SubSeq(seq, 1, i) \o <<x>> \o SubSeq(seq, i + 1, Len(seq))

\* The components the client bundle may hold: those the server can render
\* with a text in each text node.
ClientComponents ==
  {c \in Components : Evaluate(c, 0, "server").ok /\ ~(c.def = "Para" /\ c.text = <<>>)}

\* The content of #root parsed from the server's interactive-mode markup.
ServerDom(c) == <<DomOf(Evaluate(c, 0, "server").node, "server")>>

ExtraNodes == {DomOf(H("span", <<>>), "server"), DomOf(Text(<<"extra">>), "server")}

\* The server's content with one extra child inserted, under #root or under
\* the App's outermost element.
AlteredDoms(c) ==
  LET d == ServerDom(c)
  IN  {InsertAt(d, i, x) : i \in 0..1, x \in ExtraNodes}
      \cup {<<[d[1] EXCEPT !.kids = InsertAt(d[1].kids, i, x)]>> :
              i \in 0..Len(d[1].kids), x \in ExtraNodes}

\* The structural walk of attach: a node of the expected tag and text with the
\* expected number of children is kept and its children are walked; any other
\* is replaced by a client render of the expected element and signalled.
RECURSIVE Reconcile(_, _)
Reconcile(existing, expected) ==
  IF Len(existing) # Len(expected)
  THEN [dom |-> [i \in 1..Len(expected) |-> DomOf(expected[i], "client")], warnings |-> 1]
  ELSE LET one(i) ==
             IF /\ existing[i].tag = expected[i].tag
                /\ existing[i].text = expected[i].text
             THEN LET sub == Reconcile(existing[i].kids, expected[i].kids)
                  IN  [node |-> [existing[i] EXCEPT !.kids = sub.dom], warnings |-> sub.warnings]
             ELSE [node |-> DomOf(expected[i], "client"), warnings |-> 1]
           Sum[i \in 0..Len(expected)] == IF i = 0 THEN 0 ELSE Sum[i - 1] + one(i).warnings
       IN  [dom |-> [i \in 1..Len(expected) |-> one(i).node],
            warnings |-> Sum[Len(expected)]]

\* Client.js: hydrateRoot(document.getElementById("root"), h(App)).
Hydrate ==
  /\ cpc = "Loaded"
  /\ LET e == Evaluate(cComponent, UseState(0, 0), "client")
         r == Reconcile(dom, <<e.node>>)
     IN  /\ dom' = r.dom
         /\ warnings' = r.warnings
  /\ cpc' = "Hydrated"
  /\ UNCHANGED <<cComponent, delivered, count, buildVars, injVars, ssrVars>>

\* onClick: () => setCount(count + 1), and the render that follows.
Click ==
  /\ cpc = "Hydrated"
  /\ cComponent.def = "SSR_App"
  /\ count < MaxClicks
  /\ count' = count + 1
  /\ dom' = Reconcile(dom, <<Evaluate(cComponent, count + 1, "client").node>>).dom
  /\ UNCHANGED <<cComponent, delivered, cpc, warnings, buildVars, injVars, ssrVars>>

ClientInit ==
  /\ cComponent \in ClientComponents
  /\ delivered \in {ServerDom(cComponent)} \cup AlteredDoms(cComponent)
  /\ dom = delivered
  /\ cpc = "Loaded"
  /\ warnings = 0
  /\ count = 0

ClientNext == Hydrate \/ Click

\* --------------------------------------------------------- specifications

\* Each specification runs one part of the program and holds the others at
\* one initial state.
BuildRest ==
  /\ component = [def |-> "SSG_App", text |-> <<>>]
  /\ shellFile = [exists |-> TRUE, content |-> <<"<div id=\"root\">", Marker, "</div>">>]
  /\ dist = [state |-> "absent", entries |-> NoEntries]
  /\ bpc = "Idle" /\ shell = <<>> /\ app = <<>> /\ html = <<>>
  /\ distBefore = dist /\ buildNo = 1 /\ trace = <<>> /\ berr = "none"
  /\ prevErr = "none" /\ prevDist = Contents(dist)

InjectRest ==
  /\ itemplate = <<"<div id=\"root\">", Marker, "</div>">>
  /\ imarkup = <<>>
  /\ idoc = <<>> /\ ifirst = <<>> /\ icalls = 0 /\ ierr = "none"

SSRRest ==
  /\ ssrComponent = [def |-> "SSR_App", text |-> <<>>]
  /\ ssrShellFile = [exists |-> TRUE, content |-> <<"<div id=\"root\">", Marker, "</div>">>]
  /\ reqs = [r \in ReqIds |-> NewReq]
  /\ serverUp = TRUE
  /\ renders = 0

ClientRest ==
  /\ cComponent = [def |-> "SSR_App", text |-> <<>>]
  /\ delivered = ServerDom(cComponent)
  /\ dom = delivered
  /\ cpc = "Loaded" /\ warnings = 0 /\ count = 0

\* The SSG build.
Init == BuildInit /\ InjectRest /\ SSRRest /\ ClientRest

Next == BuildNext

Spec == Init /\ [][Next]_vars

\* The shell substitution, applied once and then to its own output.
InjectSpecInit == InjectInit /\ BuildRest /\ SSRRest /\ ClientRest

InjectSpec == InjectSpecInit /\ [][InjectNext]_vars

\* The SSR server and its requests.
SSRSpecInit == SSRInit /\ BuildRest /\ InjectRest /\ ClientRest

SSRSpec == SSRSpecInit /\ [][SSRNext]_vars

\* The browser.
ClientSpecInit == ClientInit /\ BuildRest /\ InjectRest /\ SSRRest

ClientSpec == ClientSpecInit /\ [][ClientNext]_vars

\* ------------------------------------------------------- claims: the build

Last(seq) == seq[Len(seq)]

Ran(step) == \E i \in 1..Len(trace) : trace[i] = step

IsPrefix(p, q) == Len(p) <= Len(q) /\ SubSeq(q, 1, Len(p)) = p

WrittenByThisBuild == {n \in DOMAIN dist.entries : dist.entries[n].born = buildNo}

\* C1: whatever dist/ held before (absent, empty, or any entries of earlier
\* builds), after a build that reaches Done it holds exactly index.html, a
\* file with the document of this build, written by this build.
C1_DoneDirHoldsOnlyThisBuild ==
  bpc = "Done" =>
    /\ dist.state = "dir"
    /\ DOMAIN dist.entries = {"index.html"}
    /\ dist.entries["index.html"] = [kind |-> "file", data |-> html, born |-> buildNo]

\* Scenario B: a first build over a directory that held old.html is Done.
C1_Witness ==
  /\ bpc = "Done"
  /\ buildNo = 1
  /\ distBefore.state = "dir"
  /\ "old.html" \in DOMAIN distBefore.entries

C6_LoadRejectsBadMarkerCount ==
  (Ran("Loading") /\ shellFile.exists /\ MarkerCount(shellFile.content) # 1) =>
    (bpc = "Failed" /\ berr = "TemplateError" /\ Last(trace) = "Loading")

BuildOrder == <<"Loading", "Rendering", "Injecting", "Preparing", "Writing">>

C8_AbortedRenderLeavesDist ==
  (bpc = "Failed" /\ trace # <<>> /\ Last(trace) \in {"Rendering", "Injecting"}) =>
    dist = distBefore

\* The App without the useState import fails the render of a build over a
\* directory that holds entries.
C8_Witness ==
  /\ bpc = "Failed"
  /\ trace # <<>>
  /\ Last(trace) = "Rendering"
  /\ component.def = "Unnamed_App"
  /\ distBefore.state = "dir"
  /\ Files(distBefore) # {}

\* ------------------------------------------------ claims: the substitution

\* C2: the substitution applied again to its own output, the document of a
\* template with one marker and now with none, fails with TemplateError and
\* does not give the document back unchanged.
C2_ReinjectIsRejected ==
  (icalls = 2 /\ MarkerCount(itemplate) = 1 /\ MarkerCount(ifirst) = 0) =>
    (ierr = "TemplateError" /\ idoc # ifirst)

\* C3: for a template with one marker the document is the text before the
\* marker, the markup token for token, and the text after the marker.
C3_MarkupIsInsertedVerbatim ==
  (icalls >= 1 /\ MarkerCount(itemplate) = 1) =>
    ifirst = BeforeMarker(itemplate) \o imarkup \o AfterMarker(itemplate)

\* ------------------------------------------------- claims: the SSR server

LacksCapability(c) == ~(References(c.def) \subseteq Imports(c.def))

Finished(r) == reqs[r].pc \in {"Escaped", "Responded"}

\* C4: a request whose App uses useState without importing it raises
\* RenderError, which the request handler catches and turns into an error
\* response, and the serving process stays up.
C4_MissingCapabilityIsCaught ==
  \A r \in ReqIds :
    (/\ LacksCapability(ssrComponent)
     /\ ssrShellFile.exists
     /\ MarkerCount(ssrShellFile.content) = 1
     /\ Finished(r)) =>
      /\ reqs[r].err = "RenderError"
      /\ reqs[r].caughtBy = "handler"
      /\ reqs[r].pc = "Responded"
      /\ reqs[r].status >= 500
      /\ serverUp

\* The document of a request that is the only one the process ever serves.
AloneDocument ==
  SplitInject(ssrShellFile.content, Render(ssrComponent, "interactive", 0).markup)

\* C9: however the steps of the requests interleave, the body of every
\* answered request is the document of a request run alone, and the counter
\* in it is the declared initial state 0.
C9_RequestsDoNotInterfere ==
  \A r \in ReqIds :
    reqs[r].status = 200 =>
      /\ reqs[r].body = AloneDocument
      /\ ssrComponent.def = "SSR_App" =>
           \E i \in 1..Len(reqs[r].body) : reqs[r].body[i] = "Count: 0"

\* Every request of the App with the counter is answered, the renders of all
\* of them having run in the one process.
C9_Witness ==
  /\ ssrComponent.def = "SSR_App"
  /\ \A r \in ReqIds : reqs[r].status = 200
  /\ renders = MaxReqs

\* -------------------------------------------------------- claims: the client

====
